---------------------------- MODULE Spec2Model ----------------------------
(***************************************************************************)
(* Model of the politia ingestion pipeline (src/politia/pipeline):         *)
(*   - NameMatcher._normalize_name, the name index and match_speaker       *)
(*   - OpenParlamentoProcessor and WebTVProcessor working on one           *)
(*     SQLAlchemy session created with autoflush=False                     *)
(*   - DataPipeline.run                                                    *)
(*   - WebTVFetcher.fetch_incremental (src/politia/pipeline/webtv_fetcher) *)
(*                                                                         *)
(* Strings are sequences of one-character strings, so that upper-casing,   *)
(* substring removal, punctuation stripping and whitespace splitting are   *)
(* computed the way the Python code computes them.                         *)
(***************************************************************************)
EXTENDS Integers, Sequences, FiniteSets, TLC

VARIABLES
    (* --- normalization as a pure function (specification SpecNorm) --- *)
    nPc,        \* "in" | "once" | "twice"
    nIn,        \* the input string
    nOut,       \* _normalize_name(nIn)
    nOut2,      \* _normalize_name(nOut)
    (* --- the name index and match_speaker (specification SpecMatch) --- *)
    mPc,        \* "new" | "built" | "matched"
    mPersons,   \* the Person rows the index is built from, in query order
    mLabel,     \* the speaker label handed to match_speaker
    mCache,     \* NameMatcher._person_cache
    mRes,       \* what match_speaker did with mLabel
    (* --- the pipeline on one store (specifications Spec, SpecClient) --- *)
    opFiles,    \* the files of OPENPARLAMENTO_DATA_PATH, in glob order
    tvFiles,    \* the files of WEBTV_DATA_PATH, in glob order
    paths,      \* for each stage, whether its data_path is set and exists
    argOP,      \* run(process_openparlamento=...)
    argTV,      \* run(process_webtv=...)
    db,         \* the committed rows of the four tables
    txn,        \* the rows the open transaction sees (committed + flushed + dirty)
    pend,       \* session.new: objects added and not yet flushed
    person_cache, \* name_matcher._person_cache
    pc,         \* where the program is
    idx,        \* index of the next file of the running process_all
    count,      \* count of the running process_all
    result,     \* the dictionary run() returns
    runs,       \* how many times the program was started
    hist,       \* history: what happened, for stating the claims
    (* --- WebTVFetcher.fetch_incremental (specification SpecFetch) --- *)
    fPc,        \* "idle" | "probe" | "range" | "fetch" | "returned"; "off" if unused
    fLocal,     \* the session numbers that have a file in output_path
    fRemote,    \* the session numbers that exist on the remote site
    fFail,      \* the session numbers whose download fails during the first call
    fArgs,      \* the arguments max_sessions (NoMaxSessions for None) and max_attempts
    fLoop,      \* the locals start_session, session_num, end_session,
                \* consecutive_missing and count of the running call
    fLog        \* history of the running call: probes, requests, saved files, result

normVars == <<nPc, nIn, nOut, nOut2>>
matchVars == <<mPc, mPersons, mLabel, mCache, mRes>>

pipeVars == <<opFiles, tvFiles, paths, argOP, argTV, db, txn, pend, person_cache, pc, idx, count,
              result, runs, hist>>

fetchVars == <<fPc, fLocal, fRemote, fFail, fArgs, fLoop, fLog>>

vars == <<normVars, matchVars, pipeVars, fetchVars>>

\* The result of match_speaker when it returns None.
NoPerson == <<"None">>

\* mRes before match_speaker was called.
NoResult == [person |-> NoPerson, stage |-> 0, warned |-> FALSE]

\* The variables of a part that a specification does not use keep these values.
NormIdle == nPc = "off" /\ nIn = <<>> /\ nOut = <<>> /\ nOut2 = <<>>

MatchIdle ==
    mPc = "off" /\ mPersons = <<>> /\ mLabel = <<>> /\ mCache = <<>> /\ mRes = NoResult

\* The four tables, empty.
EmptyStore == [persons |-> <<>>, sessions |-> <<>>, topics |-> <<>>, speeches |-> <<>>]

PipeIdle ==
    /\ opFiles = <<>> /\ tvFiles = <<>> /\ paths = <<>> /\ argOP = FALSE /\ argTV = FALSE
    /\ db = EmptyStore /\ txn = EmptyStore /\ pend = <<>> /\ person_cache = <<>>
    /\ pc = "off" /\ idx = 0 /\ count = 0 /\ result = <<>> /\ runs = 0 /\ hist = <<>>

FetchIdle ==
    /\ fPc = "off" /\ fLocal = {} /\ fRemote = {} /\ fFail = {} /\ fArgs = <<>>
    /\ fLoop = <<>> /\ fLog = <<>>

(***************************************************************************)
(* Characters and strings                                                  *)
(***************************************************************************)

\* Length bound of the strings SpecNorm feeds to _normalize_name.
MaxNameLen == 3

\* The characters SpecNorm draws its inputs from: letters of the title "ON",
\* another letter in both cases, a blank and a punctuation mark.
NormAlphabet == {"O", "N", "R", "r", " ", "."}

\* str.upper() on one character.
UpperChar(c) ==
    CASE c = "r" -> "R"
      [] c = "o" -> "O"
      [] c = "n" -> "N"
      [] c = "a" -> "A"
      [] c = "b" -> "B"
      [] OTHER -> c

\* \s of the regular expression and of str.split().
IsSpace(c) == c = " "

\* \w of the regular expression: letters, digits and the underscore.
IsWordChar(c) == c \notin {" ", ".", "-", "'"}

StrUpper(s) == [i \in 1..Len(s) |-> UpperChar(s[i])]

\* TRUE iff t occurs in s at position i.
OccursAt(s, t, i) ==
    /\ i + Len(t) - 1 <= Len(s)
    /\ \A k \in 1..Len(t) : s[i + k - 1] = t[k]

\* s.replace(t, ""): the non-overlapping occurrences of t, found left to right,
\* are removed; the scan continues after each removed occurrence.
RECURSIVE RemoveFrom(_, _, _)
RemoveFrom(s, t, i) ==
    IF i > Len(s) THEN <<>>
    ELSE IF OccursAt(s, t, i) THEN RemoveFrom(s, t, i + Len(t))
    ELSE <<s[i]>> \o RemoveFrom(s, t, i + 1)

StrRemove(s, t) == IF Len(t) = 0 THEN s ELSE RemoveFrom(s, t, 1)

\* s.split(): the maximal runs of non-blank characters, in order.
RECURSIVE SplitFrom(_, _, _)
SplitFrom(s, i, cur) ==
    IF i > Len(s) THEN (IF cur = <<>> THEN <<>> ELSE <<cur>>)
    ELSE IF IsSpace(s[i])
         THEN (IF cur = <<>> THEN <<>> ELSE <<cur>>) \o SplitFrom(s, i + 1, <<>>)
         ELSE SplitFrom(s, i + 1, Append(cur, s[i]))

StrSplit(s) == SplitFrom(s, 1, <<>>)

\* ' '.join(parts)
RECURSIVE StrJoin(_)
StrJoin(parts) ==
    IF parts = <<>> THEN <<>>
    ELSE IF Len(parts) = 1 THEN parts[1]
    ELSE parts[1] \o <<" ">> \o StrJoin(Tail(parts))

\* s.strip(): leading and trailing whitespace removed.
RECURSIVE StripLeft(_)
StripLeft(s) == IF s # <<>> /\ IsSpace(s[1]) THEN StripLeft(Tail(s)) ELSE s

RECURSIVE StripRight(_)
StripRight(s) ==
    IF s # <<>> /\ IsSpace(s[Len(s)]) THEN StripRight(SubSeq(s, 1, Len(s) - 1)) ELSE s

StrStrip(s) == StripRight(StripLeft(s))

\* s.replace(' ', '_')
SpacesToUnderscores(s) == [i \in 1..Len(s) |-> IF s[i] = " " THEN "_" ELSE s[i]]

(***************************************************************************)
(* NameMatcher._normalize_name                                             *)
(***************************************************************************)

\* NameMatcher.TITLES, in the order of the list.
TITLES ==
    << <<"P","R","E","S","I","D","E","N","T","E">>,
       <<"O","N">>,
       <<"O","N","O","R","E","V","O","L","E">>,
       <<"S","E","N","A","T","O","R","E">>,
       <<"D","E","P","U","T","A","T","O">>,
       <<"M","I","N","I","S","T","R","O">>,
       <<"M","I","N","I","S","T","R","A">> >>

\* for title in self.TITLES: name_upper = name_upper.replace(title, "")
RECURSIVE RemoveTitles(_, _)
RemoveTitles(s, k) ==
    IF k > Len(TITLES) THEN s
    ELSE RemoveTitles(StrRemove(s, TITLES[k]), k + 1)

\* re.sub(r'[^\w\s]', '', s)
StripPunct(s) == SelectSeq(s, LAMBDA c : IsWordChar(c) \/ IsSpace(c))

\* _normalize_name: "" for an empty name; otherwise upper-case, remove every
\* title wherever it occurs, remove punctuation, collapse whitespace, strip.
NormalizeName(name) ==
    IF name = <<>> THEN <<>>
    ELSE StrStrip(StrJoin(StrSplit(StripPunct(RemoveTitles(StrUpper(name), 1)))))

(***************************************************************************)
(* Person rows                                                             *)
(***************************************************************************)

\* An absent or empty value (None and '' are both falsy in the code's tests).
Empty == <<>>

\* f"{family_name} {given_name}".strip()
FullNameOf(family, given) == StrStrip(family \o <<" ">> \o given)

\* The id of a record that has no 'id' key.
AbsentId == "<absent>"

\* A biographical record: the fields the processor reads.  id is AbsentId
\* when the record has none; party is the latest group's acronym or, failing
\* that, its name (Empty if the record has neither).
OPRecord(id, family, given, party) ==
    [id |-> id, family_name |-> family, given_name |-> given, party |-> party]

\* raw_data of a Person that was not built from a record.
NoneData == OPRecord("", Empty, Empty, Empty)

\* OpenParlamentoProcessor._create_person: the Person built from a record.
CreatePerson(person_id, data) ==
    [ person_id   |-> person_id,
      full_name   |-> FullNameOf(data.family_name, data.given_name),
      family_name |-> data.family_name,
      given_name  |-> data.given_name,
      party       |-> data.party,
      raw_data    |-> data ]

(***************************************************************************)
(* NameMatcher: the index (_person_cache) and match_speaker                *)
(*                                                                         *)
(* The cache is a Python dict: a sequence of (key, person) entries in      *)
(* insertion order; assigning an existing key replaces its value in place. *)
(***************************************************************************)

CacheHas(cache, key) == \E i \in 1..Len(cache) : cache[i].key = key

CacheGet(cache, key) ==
    cache[CHOOSE i \in 1..Len(cache) : cache[i].key = key].person

\* self._person_cache[key] = person
CachePut(cache, key, pid) ==
    IF CacheHas(cache, key)
    THEN [i \in 1..Len(cache) |->
            IF cache[i].key = key THEN [key |-> key, person |-> pid] ELSE cache[i]]
    ELSE Append(cache, [key |-> key, person |-> pid])

\* A loop body that indexes the two orders of family and given name only.
LoadPersonNamesOnly(cache, p) ==
    IF p.family_name # Empty /\ p.given_name # Empty
    THEN CachePut(
           CachePut(cache,
                    NormalizeName(p.family_name \o <<" ">> \o p.given_name),
                    p.person_id),
           NormalizeName(p.given_name \o <<" ">> \o p.family_name),
           p.person_id)
    ELSE cache

\* The body of the loop of _load_person_cache for one Person.
LoadPerson(cache, p) ==
    LET c1 == IF p.family_name # Empty /\ p.given_name # Empty
              THEN CachePut(
                     CachePut(cache,
                              NormalizeName(p.family_name \o <<" ">> \o p.given_name),
                              p.person_id),
                     NormalizeName(p.given_name \o <<" ">> \o p.family_name),
                     p.person_id)
              ELSE cache
    IN  IF p.full_name # Empty
        THEN CachePut(c1, NormalizeName(p.full_name), p.person_id)
        ELSE c1

\* _load_person_cache: every Person of the query, in order, is added to the
\* cache the matcher already has (the cache is not cleared first).
RECURSIVE LoadPersonCache(_, _)
LoadPersonCache(cache, persons) ==
    IF persons = <<>> THEN cache
    ELSE LoadPersonCache(LoadPerson(cache, Head(persons)), Tail(persons))

\* The literal "Unknown".
UnknownLabel == <<"U","n","k","n","o","w","n">>

Reverse(parts) == [i \in 1..Len(parts) |-> parts[Len(parts) + 1 - i]]

Last(parts) == parts[Len(parts)]

ButLast(parts) == SubSeq(parts, 1, Len(parts) - 1)

\* candidates.append(person) for the selected cache entries, in cache order.
PersonsOf(hits) == [i \in 1..Len(hits) |-> hits[i].person]

\* The test of stage 4 on the parts of one cache key.
SurnameGivenTest(kp, surname, first_given) ==
    /\ Len(kp) >= 2
    /\ \/ (Last(kp) = surname /\ kp[1] = first_given)
       \/ (kp[1] = surname /\ Last(kp) = first_given)

\* match_speaker stage 4, "surname + first given name": the candidates.
SurnameGivenCandidates(cache, parts) ==
    PersonsOf(SelectSeq(cache,
        LAMBDA e : SurnameGivenTest(StrSplit(e.key), Last(parts), parts[1])))

\* The test of stage 5 on the parts of one cache key.
SurnameTest(kp, surname) == kp # <<>> /\ Last(kp) = surname

\* match_speaker stage 5, "surname only": the candidates.
SurnameCandidates(cache, parts) ==
    PersonsOf(SelectSeq(cache, LAMBDA e : SurnameTest(StrSplit(e.key), Last(parts))))

\* A surname-only stage that takes the first of several candidates.
SurnameOnlyGuessing(cands) ==
    IF Len(cands) >= 1 THEN [person |-> cands[1], stage |-> 5, warned |-> FALSE]
    ELSE [person |-> NoPerson, stage |-> 6, warned |-> FALSE]

\* What the surname-only stage returns for its candidate list.
SurnameOnlyResult(cands) ==
    IF Len(cands) = 1 THEN [person |-> cands[1], stage |-> 5, warned |-> FALSE]
    ELSE [person |-> NoPerson, stage |-> (IF Len(cands) > 1 THEN 5 ELSE 6),
          warned |-> FALSE]

\* match_speaker: the Person returned (NoPerson for None), the stage that
\* decided and whether the "Multiple matches" warning was logged.
MatchResult(cache, speaker_name) ==
    LET normalized == NormalizeName(speaker_name)
        parts == StrSplit(normalized)
        none == [person |-> NoPerson, stage |-> 6, warned |-> FALSE]
    IN
    IF speaker_name = Empty \/ speaker_name = UnknownLabel THEN none
    ELSE IF CacheHas(cache, normalized)
    THEN [person |-> CacheGet(cache, normalized), stage |-> 1, warned |-> FALSE]
    ELSE IF Len(parts) >= 2 /\ CacheHas(cache, StrJoin(Reverse(parts)))
    THEN [person |-> CacheGet(cache, StrJoin(Reverse(parts))), stage |-> 2,
          warned |-> FALSE]
    ELSE IF Len(parts) >= 2
            /\ CacheHas(cache, Last(parts) \o <<" ">> \o StrJoin(ButLast(parts)))
    THEN [person |-> CacheGet(cache, Last(parts) \o <<" ">> \o StrJoin(ButLast(parts))),
          stage |-> 3, warned |-> FALSE]
    ELSE IF Len(parts) >= 2
            /\ CacheHas(cache, StrJoin(ButLast(parts)) \o <<" ">> \o Last(parts))
    THEN [person |-> CacheGet(cache, StrJoin(ButLast(parts)) \o <<" ">> \o Last(parts)),
          stage |-> 3, warned |-> FALSE]
    ELSE IF Len(parts) >= 2 /\ Len(SurnameGivenCandidates(cache, parts)) >= 1
    THEN [person |-> SurnameGivenCandidates(cache, parts)[1], stage |-> 4,
          warned |-> Len(SurnameGivenCandidates(cache, parts)) > 1]
    ELSE IF Len(parts) >= 1
    THEN SurnameOnlyResult(SurnameCandidates(cache, parts))
    ELSE none

MatchSpeaker(cache, speaker_name) == MatchResult(cache, speaker_name).person

(***************************************************************************)
(* SpecMatch: an index built from a few Persons, queried with one label    *)
(***************************************************************************)

\* How many Persons SpecMatch builds the index from, at most.
MaxPersons == 2

\* How many tokens the labels of SpecMatch have, at most.
MaxLabelTokens == 3

FamilyPool == { <<"R">>, <<"D", " ", "R">> }

GivenPool == { <<"A">>, <<"a">>, <<"B">>, <<"A", " ", "B">>, <<"O", "n">> }

TokenPool == { <<"R">>, <<"A">>, <<"B">>, <<"D">> }

RECURSIVE TokenSeqs(_)
TokenSeqs(n) ==
    IF n = 0 THEN {<<>>}
    ELSE LET shorter == TokenSeqs(n - 1)
         IN  shorter \cup {Append(s, t) : s \in shorter, t \in TokenPool}

LabelPool ==
    {StrJoin(ts) : ts \in TokenSeqs(MaxLabelTokens)}
        \cup {UnknownLabel, <<"a", " ", "R">>, <<"O", "n", " ", "R">>}

\* The Person the biographical stage creates for external id i.
PoolPerson(i, family, given) ==
    CreatePerson(<<"op_", ToString(i)>>, OPRecord(ToString(i), family, given, Empty))

\* The (family name, given name) pairs of the records: every family name with
\* every given name, and a record that has its three name tokens in
\* family_name and no given_name (full_name is then the family name).
NamePool ==
    (FamilyPool \X GivenPool) \cup { << <<"R", " ", "A", " ", "B">>, Empty >> }

RECURSIVE PersonSeqs(_)
PersonSeqs(n) ==
    IF n = 0 THEN {<<>>}
    ELSE LET shorter == PersonSeqs(n - 1)
         IN  shorter \cup
             {Append(s, PoolPerson(Len(s) + 1, fg[1], fg[2])) :
                s \in {t \in shorter : Len(t) = n - 1}, fg \in NamePool}

MatchInit ==
    /\ NormIdle
    /\ PipeIdle
    /\ FetchIdle
    /\ mPc = "new"
    /\ mPersons \in PersonSeqs(MaxPersons)
    /\ mLabel \in LabelPool
    /\ mCache = <<>>
    /\ mRes = NoResult

\* NameMatcher.__init__: the cache starts empty and is loaded from the store.
BuildIndex ==
    /\ mPc = "new"
    /\ mCache' = LoadPersonCache(<<>>, mPersons)
    /\ mPc' = "built"
    /\ UNCHANGED <<mPersons, mLabel, mRes, normVars, pipeVars, fetchVars>>

\* match_speaker(mLabel)
MatchLabel ==
    /\ mPc = "built"
    /\ mRes' = MatchResult(mCache, mLabel)
    /\ mPc' = "matched"
    /\ UNCHANGED <<mPersons, mLabel, mCache, normVars, pipeVars, fetchVars>>

MatchNext == BuildIndex \/ MatchLabel

SpecMatch == MatchInit /\ [][MatchNext]_vars

(***************************************************************************)
(* SpecNorm: _normalize_name applied to every string of the bounded set    *)
(***************************************************************************)

RECURSIVE StringsUpTo(_, _)
StringsUpTo(alphabet, n) ==
    IF n = 0 THEN {<<>>}
    ELSE LET shorter == StringsUpTo(alphabet, n - 1)
         IN  shorter \cup {Append(s, c) : s \in shorter, c \in alphabet}

NormInit ==
    /\ MatchIdle
    /\ PipeIdle
    /\ FetchIdle
    /\ nPc = "in"
    /\ nIn \in StringsUpTo(NormAlphabet, MaxNameLen)
    /\ nOut = <<>>
    /\ nOut2 = <<>>

NormalizeOnce ==
    /\ nPc = "in"
    /\ nOut' = NormalizeName(nIn)
    /\ nPc' = "once"
    /\ UNCHANGED <<nIn, nOut2, matchVars, pipeVars, fetchVars>>

NormalizeTwice ==
    /\ nPc = "once"
    /\ nOut2' = NormalizeName(nOut)
    /\ nPc' = "twice"
    /\ UNCHANGED <<nIn, nOut, matchVars, pipeVars, fetchVars>>

NormNext == NormalizeOnce \/ NormalizeTwice

SpecNorm == NormInit /\ [][NormNext]_vars

(***************************************************************************)
(* The store and the SQLAlchemy session                                    *)
(*                                                                         *)
(* A table is the sequence of its rows in insertion order.  The session    *)
(* is made by sessionmaker(autocommit=False, autoflush=False): a query     *)
(* reads the rows of the open transaction and does not see the objects     *)
(* that were added and not yet flushed.  A session state is a record       *)
(*   [txn, pend, cache, raised, integrity, ret]                            *)
(* raised: an exception is propagating; integrity: a flush was rejected;   *)
(* ret: the value just returned.                                           *)
(***************************************************************************)

\* The primary key column of each table.
RowId(kind, row) ==
    CASE kind = "persons"  -> row.person_id
      [] kind = "sessions" -> row.session_id
      [] kind = "topics"   -> row.topic_id
      [] kind = "speeches" -> row.speech_id

\* No row: what .first() returns when nothing matches.
NoRow == [none |-> TRUE]

HasRow(table, kind, id) == \E i \in 1..Len(table) : RowId(kind, table[i]) = id

\* db.query(Model).filter(Model.<pk> == id).first()
QueryFirst(st, kind, id) ==
    IF HasRow(st.txn[kind], kind, id)
    THEN st.txn[kind][CHOOSE i \in 1..Len(st.txn[kind]) : RowId(kind, st.txn[kind][i]) = id]
    ELSE NoRow

\* db.add(obj)
DbAdd(st, kind, row) == [st EXCEPT !.pend = Append(@, [kind |-> kind, row |-> row])]

\* One INSERT: the primary key constraint rejects a row whose key is taken.
InsertRow(table, kind, row) ==
    IF HasRow(table, kind, RowId(kind, row))
    THEN [ok |-> FALSE, table |-> table]
    ELSE [ok |-> TRUE, table |-> Append(table, row)]

\* The INSERTs of a flush, in the order the objects were added; the first
\* rejected one raises IntegrityError.
RECURSIVE FlushFrom(_, _, _)
FlushFrom(t, pending, i) ==
    IF i > Len(pending) THEN [txn |-> t, raised |-> FALSE]
    ELSE LET o == pending[i]
             r == InsertRow(t[o.kind], o.kind, o.row)
         IN  IF r.ok THEN FlushFrom([t EXCEPT ![o.kind] = r.table], pending, i + 1)
             ELSE [txn |-> t, raised |-> TRUE]

\* db.flush()
DbFlush(st) ==
    LET r == FlushFrom(st.txn, st.pend, 1)
    IN  [st EXCEPT !.txn = r.txn, !.pend = <<>>, !.raised = r.raised,
                   !.integrity = @ \/ r.raised]

\* An exception raised by the code itself.
Raise(st) == [st EXCEPT !.raised = TRUE]

\* The state of a session: the rows it sees, its new objects, the matcher's cache.
SessionState(t, pending, c) ==
    [ txn |-> t, pend |-> pending, cache |-> c, raised |-> FALSE, integrity |-> FALSE,
      ret |-> NoPerson ]

(***************************************************************************)
(* Identifiers                                                             *)
(***************************************************************************)

\* hashlib.md5(x).hexdigest(): the digest of x (collisions are not modelled).
Md5(x) == <<"md5", x>>

\* data.get('id', 'unknown')
RecordId(data) == IF data.id = AbsentId THEN "unknown" ELSE data.id

\* f"op_{data.get('id', 'unknown')}"
PersonKey(data) == <<"op_", RecordId(data)>>

\* A placeholder identifier made from the label as it is written.
UnknownKeyOfRawLabel(speaker_name) == <<"unknown_">> \o SpacesToUnderscores(speaker_name)

\* f"unknown_{self._normalize_name(speaker_name).replace(' ', '_')}"
UnknownKey(speaker_name) ==
    <<"unknown_">> \o SpacesToUnderscores(NormalizeName(speaker_name))

\* f"session_{legislature}_{session_number}": the two texts of the file name.
SessionKey(legislature, session_number) ==
    <<"session_">> \o legislature \o <<"_">> \o session_number

\* _generate_topic_id: f"{session_id}_topic_{md5(title)[:8]}"
TopicKey(session_id, title) == [session_id |-> session_id, title_hash |-> Md5(title)]

\* text[:100]: a text is its first 100 characters and the rest.
TextPrefix(text) == text.head

\* _generate_speech_id: f"{topic_id}_speech_{md5(f'{topic_id}_{index}_{text[:100]}')[:12]}"
SpeechKey(topic_id, index, text) ==
    [topic_id |-> topic_id, text_hash |-> Md5(<<topic_id, index, TextPrefix(text)>>)]

(***************************************************************************)
(* OpenParlamentoProcessor                                                 *)
(***************************************************************************)

\* An update that takes every field from the record.
UpdatePersonFromRecord(person, data) ==
    [ person EXCEPT !.family_name = data.family_name,
                    !.given_name = data.given_name,
                    !.full_name = FullNameOf(data.family_name, data.given_name),
                    !.party = data.party,
                    !.raw_data = data ]

\* _update_person: the name fields are set only where the stored one is empty,
\* the party is overwritten when the record has one, raw_data is replaced.
UpdatePerson(person, data) ==
    LET family == IF person.family_name = Empty THEN data.family_name
                  ELSE person.family_name
        given  == IF person.given_name = Empty THEN data.given_name
                  ELSE person.given_name
        full   == IF person.full_name = Empty THEN FullNameOf(family, given)
                  ELSE person.full_name
    IN  [ person EXCEPT !.family_name = family,
                        !.given_name = given,
                        !.full_name = full,
                        !.party = IF data.party # Empty THEN data.party ELSE @,
                        !.raw_data = data ]

\* The stored row with the given key replaced by the modified object.
ReplaceRow(table, kind, row) ==
    [i \in 1..Len(table) |->
        IF RowId(kind, table[i]) = RowId(kind, row) THEN row ELSE table[i]]

\* OpenParlamentoProcessor.process_file.  A file that cannot be parsed raises
\* before anything is written.
OPProcessFile(st, file) ==
    IF ~file.readable THEN Raise(st)
    ELSE LET data == file.data
             person_id == PersonKey(data)
             existing == QueryFirst(st, "persons", person_id)
         IN  IF existing # NoRow
             THEN [st EXCEPT !.txn.persons =
                        ReplaceRow(@, "persons", UpdatePerson(existing, data))]
             ELSE DbAdd(st, "persons", CreatePerson(person_id, data))

(***************************************************************************)
(* NameMatcher.get_or_create_unknown_speaker                               *)
(***************************************************************************)

\* The placeholder Person built for an unmatched label.
UnknownPerson(person_id, speaker_name) ==
    LET parts == StrSplit(speaker_name)
    IN  [ person_id   |-> person_id,
          full_name   |-> speaker_name,
          family_name |-> IF parts # <<>> THEN Last(parts) ELSE speaker_name,
          given_name  |-> IF Len(parts) > 1 THEN parts[1] ELSE Empty,
          party       |-> Empty,
          raw_data    |-> NoneData ]

\* get_or_create_unknown_speaker: the stored placeholder, or a new one that is
\* added, flushed and put into the cache under the normalized label.
GetOrCreateUnknownSpeaker(st, speaker_name) ==
    LET person_id == UnknownKey(speaker_name)
        person == QueryFirst(st, "persons", person_id)
    IN  IF person # NoRow THEN [st EXCEPT !.ret = person_id]
        ELSE LET flushed == DbFlush(DbAdd(st, "persons",
                                          UnknownPerson(person_id, speaker_name)))
             IN  IF flushed.raised THEN flushed
                 ELSE [flushed EXCEPT
                         !.cache = CachePut(@, NormalizeName(speaker_name), person_id),
                         !.ret = person_id]

(***************************************************************************)
(* WebTVProcessor                                                          *)
(***************************************************************************)

\* file_path.stem.split('__')
RECURSIVE SplitStemFrom(_, _, _)
SplitStemFrom(s, i, cur) ==
    IF i > Len(s) THEN <<cur>>
    ELSE IF OccursAt(s, <<"_", "_">>, i)
         THEN <<cur>> \o SplitStemFrom(s, i + 2, <<>>)
         ELSE SplitStemFrom(s, i + 1, Append(cur, s[i]))

SplitStem(stem) == SplitStemFrom(stem, 1, <<>>)

IsDigit(c) == c \in {"0", "1", "2", "3", "4", "5", "6", "7", "8", "9"}

DigitValue(c) ==
    CASE c = "0" -> 0 [] c = "1" -> 1 [] c = "2" -> 2 [] c = "3" -> 3 [] c = "4" -> 4
      [] c = "5" -> 5 [] c = "6" -> 6 [] c = "7" -> 7 [] c = "8" -> 8 [] c = "9" -> 9

\* int(text) succeeds on a non-empty run of digits.
IsNumeral(text) == text # <<>> /\ \A i \in 1..Len(text) : IsDigit(text[i])

\* int(text)
RECURSIVE ParseInt(_)
ParseInt(text) ==
    IF text = <<>> THEN 0
    ELSE 10 * ParseInt(SubSeq(text, 1, Len(text) - 1)) + DigitValue(text[Len(text)])

\* JSON null where a text is expected.
NullText == [head |-> "null", rest |-> "null"]

\* not text.strip()
IsBlankText(text) == text.head = "" /\ text.rest = ""

\* The body of the loop over the interventions of one topic, for the
\* intervention at position index (zero-based).
ProcessIntervention(st, file, session, topic_id, index, intervention) ==
    IF intervention.text = NullText THEN Raise(st)
    ELSE IF IsBlankText(intervention.text) THEN st
    ELSE LET matched == MatchSpeaker(st.cache, intervention.speaker)
             st1 == IF matched = NoPerson
                    THEN GetOrCreateUnknownSpeaker(st, intervention.speaker)
                    ELSE [st EXCEPT !.ret = matched]
             speech_id == SpeechKey(topic_id, index, intervention.text)
         IN  IF st1.raised THEN st1
             ELSE IF QueryFirst(st1, "speeches", speech_id) # NoRow THEN st1
             ELSE DbAdd(st1, "speeches",
                        [ speech_id        |-> speech_id,
                          session_id       |-> session.session_id,
                          topic_id         |-> topic_id,
                          speaker_id       |-> st1.ret,
                          text             |-> intervention.text,
                          date             |-> session.date,
                          source_reference |-> file.path,
                          order_in_topic   |-> index ])

\* for idx, intervention in enumerate(interventions)
RECURSIVE ProcessInterventions(_, _, _, _, _, _)
ProcessInterventions(st, file, session, topic_id, interventions, i) ==
    IF st.raised \/ i > Len(interventions) THEN st
    ELSE ProcessInterventions(
             ProcessIntervention(st, file, session, topic_id, i - 1, interventions[i]),
             file, session, topic_id, interventions, i + 1)

\* The body of the loop over contents.items() for one (title, interventions).
ProcessTopic(st, file, session, topic) ==
    IF topic.title = "" \/ topic.interventions = <<>> THEN st
    ELSE LET topic_id == TopicKey(session.session_id, topic.title)
             st1 == IF QueryFirst(st, "topics", topic_id) # NoRow THEN st
                    ELSE DbFlush(DbAdd(st, "topics",
                                       [ topic_id   |-> topic_id,
                                         session_id |-> session.session_id,
                                         title      |-> topic.title ]))
         IN  ProcessInterventions(st1, file, session, topic_id, topic.interventions, 1)

\* for topic_title, interventions in contents.items()
RECURSIVE ProcessTopics(_, _, _, _, _)
ProcessTopics(st, file, session, contents, k) ==
    IF st.raised \/ k > Len(contents) THEN st
    ELSE ProcessTopics(ProcessTopic(st, file, session, contents[k]),
                       file, session, contents, k + 1)

\* WebTVProcessor.process_file; today is the processing date.
TVProcessFile(st, file, today) ==
    LET parts == SplitStem(file.stem)
    IN  IF ~file.readable \/ Len(parts) # 2 THEN Raise(st)
        ELSE
        LET legislature == parts[1]
            session_number == parts[2]
            session_id == SessionKey(legislature, session_number)
            found == QueryFirst(st, "sessions", session_id)
            created == [ session_id       |-> session_id,
                         date             |-> today,
                         chamber          |-> "C",
                         legislature      |-> ParseInt(legislature),
                         session_number   |-> ParseInt(session_number),
                         source_reference |-> file.path ]
        IN  IF found # NoRow THEN ProcessTopics(st, file, found, file.contents, 1)
            ELSE IF ~IsNumeral(legislature) \/ ~IsNumeral(session_number) THEN Raise(st)
            ELSE ProcessTopics(DbFlush(DbAdd(st, "sessions", created)),
                               file, created, file.contents, 1)

(***************************************************************************)
(* The inputs of the pipeline                                              *)
(***************************************************************************)

\* How many files each data directory holds, at most.
MaxOPFiles == 2

MaxTVFiles == 2

\* How many times the program is started, at most.
MaxRuns == 2

\* How many calls a client of WebTVProcessor makes, at most.
MaxClientCalls == 3

\* if count % 50 == 0: self.db.commit()
OPCommitEvery == 50

\* if count % 10 == 0: self.db.commit()
TVCommitEvery == 10

\* The files of the biographical directory: two records with the same id, a
\* homonym under another id, a record without id, a file that is not JSON.
OPFilePool ==
    { [path |-> "a.json", readable |-> TRUE,
       data |-> OPRecord("1", <<"R">>, <<"A">>, <<"X">>)],
      [path |-> "b.json", readable |-> TRUE,
       data |-> OPRecord("1", <<"R">>, Empty, <<"Y">>)],
      [path |-> "c.json", readable |-> TRUE,
       data |-> OPRecord("2", <<"R">>, <<"A">>, Empty)],
      [path |-> "d.json", readable |-> TRUE,
       data |-> OPRecord(AbsentId, <<"R">>, <<"B">>, <<"X">>)],
      [path |-> "e.json", readable |-> FALSE, data |-> NoneData] }

Text(head, rest) == [head |-> head, rest |-> rest]

Intervention(speaker, text) == [speaker |-> speaker, text |-> text]

Topic(title, interventions) == [title |-> title, interventions |-> interventions]

\* The files of the transcript directory: a sitting, the same sitting under
\* another spelling of its number, a sitting whose second intervention has a
\* null text after a first one by a speaker of the other sittings, and a file
\* whose name has no "__".
TVFilePool ==
    { [path |-> "9__1.json", readable |-> TRUE, stem |-> <<"9", "_", "_", "1">>,
       contents |-> << Topic("t", << Intervention(<<"R", " ", "A">>, Text("h1", "")),
                                     Intervention(<<"D">>, Text("h2", "")) >>) >>],
      [path |-> "9__01.json", readable |-> TRUE, stem |-> <<"9", "_", "_", "0", "1">>,
       contents |-> << Topic("t", << Intervention(<<"D">>, Text("h1", "")) >>) >>],
      [path |-> "9__2.json", readable |-> TRUE, stem |-> <<"9", "_", "_", "2">>,
       contents |-> << Topic("t", << Intervention(<<"D">>, Text("h1", "")),
                                     Intervention(<<"D">>, NullText) >>) >>],
      [path |-> "x.json", readable |-> TRUE, stem |-> <<"x">>, contents |-> <<>>] }

\* list(self.data_path.glob("*.json")): at most n distinct files of pool.
RECURSIVE Listings(_, _)
Listings(pool, n) ==
    IF n = 0 THEN {<<>>}
    ELSE LET shorter == Listings(pool, n - 1)
         IN  shorter \cup
             UNION { {Append(s, f) : f \in {g \in pool : \A i \in 1..Len(s) : s[i] # g}} :
                     s \in {t \in shorter : Len(t) = n - 1} }

\* Both directories are set and exist.
BothPaths == [op |-> TRUE, tv |-> TRUE]

\* total_persons = 0; total_sessions = 0
NoTotals == [persons |-> 0, sessions |-> 0]

(***************************************************************************)
(* History, kept for stating the claims                                    *)
(*   succeeded: the files whose process_file returned in this run          *)
(*   held:      the files whose writes the open transaction holds          *)
(*   committed: the files whose writes this run committed                  *)
(*   stored:    the files whose writes are committed, by any run           *)
(*   created:   the Persons the biographical stage of this run created     *)
(*   returned:  the stages whose process_all returned in this run          *)
(*   integrity: a flush of this run raised IntegrityError                  *)
(*   repeat:    what the last process_file did to the Session, Topic and   *)
(*              SpeechSegment rows if the rows of its file were held       *)
(*   calls:     the calls a client made                                    *)
(*   answers:   the labels a client passed to get_or_create_unknown_speaker*)
(*              and the identifier of the Person each call returned        *)
(*   links:     the labels a client resolved as process_file resolves a    *)
(*              speaker, and the identifier of the Person each one got     *)
(*   edit:      which part of a text a client changed before it ingested   *)
(*              the file again ("head": within the first 100 characters,   *)
(*              "rest": after them) and how many SpeechSegments that call  *)
(*              added                                                      *)
(*   crashed:   an earlier run was stopped by a crash                      *)
(*   dbAtCrash: the committed rows at that moment                          *)
(*   dbAtStart: the committed rows when this run started                   *)
(***************************************************************************)
NoHistory ==
    [ succeeded |-> {}, held |-> {}, committed |-> {}, stored |-> {}, created |-> {},
      returned |-> {}, integrity |-> FALSE, repeat |-> "none", calls |-> 0,
      answers |-> <<>>, links |-> <<>>, edit |-> [part |-> "none", made |-> 0],
      crashed |-> FALSE, dbAtCrash |-> EmptyStore,
      dbAtStart |-> EmptyStore ]

\* The Session, Topic and SpeechSegment rows a session holds, flushed or not.
TranscriptRows(t, pending) ==
    [ sessions |-> t.sessions, topics |-> t.topics, speeches |-> t.speeches,
      new |-> SelectSeq(pending, LAMBDA o : o.kind # "persons") ]

\* What a call of process_file on the file at path did to those rows, when the
\* rows of an earlier call on the same file were held or stored.
RepeatEffect(h, path, before, after) ==
    IF path \notin (h.held \cup h.stored) THEN "none"
    ELSE IF after = before THEN "same" ELSE "changed"

(***************************************************************************)
(* process_all: the try/except of the loop and the final commit            *)
(***************************************************************************)

\* self.db.commit(): flush, then make the transaction durable.
DbCommit(st) == DbFlush(st)

\* The try/except around one file, given the session as process_file left it:
\* on success count is incremented and every `every` files the session is
\* committed; an exception of process_file or of that commit is caught and
\* the whole open transaction is rolled back to the committed rows.
LoopBody(st, store, n, every) ==
    LET n1 == IF st.raised THEN n ELSE n + 1
        committing == ~st.raised /\ n1 % every = 0
        st1 == IF committing THEN DbCommit(st) ELSE st
    IN  [ txn        |-> IF st1.raised THEN store ELSE st1.txn,
          pend       |-> IF st1.raised THEN <<>> ELSE st1.pend,
          cache      |-> st1.cache,
          db         |-> IF committing /\ ~st1.raised THEN st1.txn ELSE store,
          count      |-> n1,
          ok         |-> ~st.raised,
          committed  |-> committing /\ ~st1.raised,
          rolledback |-> st1.raised,
          integrity  |-> st1.integrity ]

\* The history after the try/except around the file at path.
AfterFile(h, path, r, made, effect) ==
    LET held1 == IF r.ok THEN h.held \cup {path} ELSE h.held
    IN  [ h EXCEPT !.succeeded = IF r.ok THEN @ \cup {path} ELSE @,
                   !.held      = IF r.committed \/ r.rolledback THEN {} ELSE held1,
                   !.committed = IF r.committed THEN @ \cup held1 ELSE @,
                   !.stored    = IF r.committed THEN @ \cup held1 ELSE @,
                   !.created   = @ \cup made,
                   !.integrity = @ \/ r.integrity,
                   !.repeat    = effect ]

\* The history after the final commit of a stage.
AfterCommit(h, st, stage) ==
    IF st.raised THEN [h EXCEPT !.held = {}, !.integrity = TRUE]
    ELSE [ h EXCEPT !.held = {},
                    !.committed = @ \cup h.held,
                    !.stored = @ \cup h.held,
                    !.returned = @ \cup {stage} ]

(***************************************************************************)
(* Spec: the program (scripts/run_pipeline.py) started up to MaxRuns times *)
(* on the same two directories and the same store                          *)
(*                                                                         *)
(* pc: "start"   DataPipeline(db) is constructed                           *)
(*     "op"      in the loop of OpenParlamentoProcessor.process_all        *)
(*     "op_done" that process_all has returned                             *)
(*     "tv"      in the loop of WebTVProcessor.process_all                 *)
(*     "tv_done" that process_all has returned                             *)
(*     "done"    run() has returned its result                             *)
(*     "raised"  an exception left run(); the process has ended            *)
(*     "dead"    the process was killed                                    *)
(***************************************************************************)

PipeInit ==
    /\ NormIdle
    /\ MatchIdle
    /\ FetchIdle
    /\ paths \in [op : BOOLEAN, tv : BOOLEAN]
    /\ opFiles \in IF paths.op THEN Listings(OPFilePool, MaxOPFiles) ELSE {<<>>}
    /\ tvFiles \in IF paths.tv THEN Listings(TVFilePool, MaxTVFiles) ELSE {<<>>}
    /\ argOP \in BOOLEAN
    /\ argTV \in BOOLEAN
    /\ db = EmptyStore
    /\ txn = EmptyStore
    /\ pend = <<>>
    /\ person_cache = LoadPersonCache(<<>>, EmptyStore.persons)
    /\ pc = "start"
    /\ idx = 0
    /\ count = 0
    /\ result = NoTotals
    /\ runs = 1
    /\ hist = NoHistory

\* run(): if process_openparlamento, process_all() starts and lists its files.
OPBegin ==
    /\ pc = "start"
    /\ argOP
    /\ paths.op
    /\ pc' = "op"
    /\ idx' = 1
    /\ count' = 0
    /\ UNCHANGED <<opFiles, tvFiles, paths, argOP, argTV, db, txn, pend, person_cache, result,
                   runs, hist, normVars, matchVars, fetchVars>>

\* run(): if process_openparlamento, process_all() finds that its data_path is
\* unset or does not exist, logs a warning and returns 0.
OPNoPath ==
    /\ pc = "start"
    /\ argOP
    /\ ~paths.op
    /\ pc' = "op_done"
    /\ result' = [result EXCEPT !.persons = 0]
    /\ hist' = [hist EXCEPT !.returned = @ \cup {"op"}]
    /\ UNCHANGED <<opFiles, tvFiles, paths, argOP, argTV, db, txn, pend, person_cache, idx,
                   count, runs, normVars, matchVars, fetchVars>>

\* One iteration of the loop of OpenParlamentoProcessor.process_all.
OPFile ==
    /\ pc = "op"
    /\ idx <= Len(opFiles)
    /\ LET file == opFiles[idx]
           st == OPProcessFile(SessionState(txn, pend, person_cache), file)
           made == {st.pend[i].row : i \in (Len(pend) + 1)..Len(st.pend)}
           r == LoopBody(st, db, count, OPCommitEvery)
       IN  /\ txn' = r.txn
           /\ pend' = r.pend
           /\ db' = r.db
           /\ count' = r.count
           /\ hist' = AfterFile(hist, file.path, r, made, "none")
    /\ idx' = idx + 1
    /\ UNCHANGED <<opFiles, tvFiles, paths, argOP, argTV, person_cache, pc, result, runs,
                   normVars, matchVars, fetchVars>>

\* The end of OpenParlamentoProcessor.process_all: the final commit, outside the
\* try, and the return of count, which run() keeps as total_persons.
OPEnd ==
    /\ pc = "op"
    /\ idx > Len(opFiles)
    /\ LET st == DbCommit(SessionState(txn, pend, person_cache))
       IN  /\ pc' = IF st.raised THEN "raised" ELSE "op_done"
           /\ db' = IF st.raised THEN db ELSE st.txn
           /\ txn' = IF st.raised THEN db ELSE st.txn
           /\ pend' = <<>>
           /\ result' = IF st.raised THEN result ELSE [result EXCEPT !.persons = count]
           /\ hist' = AfterCommit(hist, st, "op")
    /\ UNCHANGED <<opFiles, tvFiles, paths, argOP, argTV, person_cache, idx, count, runs,
                   normVars, matchVars, fetchVars>>

\* The index the transcript stage starts with: reloaded if the biographical
\* stage ran.
IndexForTranscripts(c, t, reload) ==
    IF reload THEN LoadPersonCache(c, t.persons) ELSE c

\* run(): if process_webtv, the index is reloaded when the biographical stage
\* ran, then WebTVProcessor.process_all() starts and lists its files.
TVBegin ==
    /\ \/ pc = "op_done"
       \/ pc = "start" /\ ~argOP
    /\ argTV
    /\ paths.tv
    /\ person_cache' = IndexForTranscripts(person_cache, txn, argOP)
    /\ pc' = "tv"
    /\ idx' = 1
    /\ count' = 0
    /\ UNCHANGED <<opFiles, tvFiles, paths, argOP, argTV, db, txn, pend, result, runs, hist,
                   normVars, matchVars, fetchVars>>

\* run(): if process_webtv, the index is reloaded when the biographical stage
\* ran, then WebTVProcessor.process_all() finds that its data_path is unset or
\* does not exist, logs a warning and returns 0.
TVNoPath ==
    /\ \/ pc = "op_done"
       \/ pc = "start" /\ ~argOP
    /\ argTV
    /\ ~paths.tv
    /\ person_cache' = IndexForTranscripts(person_cache, txn, argOP)
    /\ pc' = "tv_done"
    /\ result' = [result EXCEPT !.sessions = 0]
    /\ hist' = [hist EXCEPT !.returned = @ \cup {"tv"}]
    /\ UNCHANGED <<opFiles, tvFiles, paths, argOP, argTV, db, txn, pend, idx, count, runs,
                   normVars, matchVars, fetchVars>>

\* One iteration of the loop of WebTVProcessor.process_all.
TVFile ==
    /\ pc = "tv"
    /\ idx <= Len(tvFiles)
    /\ LET file == tvFiles[idx]
           st == TVProcessFile(SessionState(txn, pend, person_cache), file, runs)
           r == LoopBody(st, db, count, TVCommitEvery)
           effect == RepeatEffect(hist, file.path, TranscriptRows(txn, pend),
                                  TranscriptRows(r.txn, r.pend))
       IN  /\ txn' = r.txn
           /\ pend' = r.pend
           /\ db' = r.db
           /\ count' = r.count
           /\ person_cache' = r.cache
           /\ hist' = AfterFile(hist, file.path, r, {}, effect)
    /\ idx' = idx + 1
    /\ UNCHANGED <<opFiles, tvFiles, paths, argOP, argTV, pc, result, runs, normVars, matchVars, fetchVars>>

\* The end of WebTVProcessor.process_all: the final commit, outside the try,
\* and the return of count, which run() keeps as total_sessions.
TVEnd ==
    /\ pc = "tv"
    /\ idx > Len(tvFiles)
    /\ LET st == DbCommit(SessionState(txn, pend, person_cache))
       IN  /\ pc' = IF st.raised THEN "raised" ELSE "tv_done"
           /\ db' = IF st.raised THEN db ELSE st.txn
           /\ txn' = IF st.raised THEN db ELSE st.txn
           /\ pend' = <<>>
           /\ result' = IF st.raised THEN result ELSE [result EXCEPT !.sessions = count]
           /\ hist' = AfterCommit(hist, st, "tv")
    /\ UNCHANGED <<opFiles, tvFiles, paths, argOP, argTV, person_cache, idx, count, runs,
                   normVars, matchVars, fetchVars>>

\* run() returns {'persons': total_persons, 'sessions': total_sessions}.
RunEnd ==
    /\ \/ pc = "tv_done"
       \/ pc = "op_done" /\ ~argTV
       \/ pc = "start" /\ ~argOP /\ ~argTV
    /\ pc' = "done"
    /\ UNCHANGED <<opFiles, tvFiles, paths, argOP, argTV, db, txn, pend, person_cache, idx, count,
                   result, runs, hist, normVars, matchVars, fetchVars>>

\* The process is killed: the open transaction and the session are lost, the
\* committed rows stay.
Crash ==
    /\ pc \in {"start", "op", "op_done", "tv", "tv_done"}
    /\ runs < MaxRuns
    /\ pc' = "dead"
    /\ txn' = db
    /\ pend' = <<>>
    /\ hist' = [hist EXCEPT !.crashed = TRUE, !.dbAtCrash = db, !.held = {}]
    /\ UNCHANGED <<opFiles, tvFiles, paths, argOP, argTV, db, person_cache, idx, count, result,
                   runs, normVars, matchVars, fetchVars>>

\* The program is started again on the same directories and the same store:
\* a new session, and DataPipeline(db) loads the index from the store.
StartRun ==
    /\ pc \in {"done", "raised", "dead"}
    /\ runs < MaxRuns
    /\ runs' = runs + 1
    /\ pc' = "start"
    /\ txn' = db
    /\ pend' = <<>>
    /\ person_cache' = LoadPersonCache(<<>>, db.persons)
    /\ idx' = 0
    /\ count' = 0
    /\ result' = NoTotals
    /\ hist' = [hist EXCEPT !.succeeded = {}, !.held = {}, !.committed = {},
                            !.created = {}, !.returned = {}, !.integrity = FALSE,
                            !.repeat = "none", !.dbAtStart = db]
    /\ UNCHANGED <<opFiles, tvFiles, paths, argOP, argTV, db, normVars, matchVars, fetchVars>>

Next ==
    \/ OPBegin
    \/ OPNoPath
    \/ OPFile
    \/ OPEnd
    \/ TVBegin
    \/ TVNoPath
    \/ TVFile
    \/ TVEnd
    \/ RunEnd
    \/ Crash
    \/ StartRun

Spec == PipeInit /\ [][Next]_vars

(***************************************************************************)
(* SpecUpdate: the biographical stage run on a store that holds the Person *)
(* of an earlier release of the record                                     *)
(***************************************************************************)

\* The releases of the record with id 1: each name field and the party
\* absent or with one of two values.
ReleasePool ==
    { OPRecord("1", f, g, p) : f \in {Empty, <<"R">>, <<"S">>},
                               g \in {Empty, <<"A">>, <<"B">>},
                               p \in {Empty, <<"X">>, <<"Y">>} }

\* The store after the earlier release was ingested.
StoreWith(person) == [EmptyStore EXCEPT !.persons = <<person>>]

UpdateInit ==
    /\ NormIdle
    /\ MatchIdle
    /\ FetchIdle
    /\ \E old \in ReleasePool, new \in ReleasePool :
          /\ db = StoreWith(CreatePerson(PersonKey(old), old))
          /\ opFiles = << [path |-> "a.json", readable |-> TRUE, data |-> new] >>
    /\ tvFiles = <<>>
    /\ paths = BothPaths
    /\ argOP = TRUE
    /\ argTV = FALSE
    /\ txn = db
    /\ pend = <<>>
    /\ person_cache = LoadPersonCache(<<>>, db.persons)
    /\ pc = "start"
    /\ idx = 0
    /\ count = 0
    /\ result = NoTotals
    /\ runs = 1
    /\ hist = [NoHistory EXCEPT !.dbAtStart = db]

UpdateNext ==
    \/ OPBegin
    \/ OPFile
    \/ OPEnd
    \/ RunEnd

SpecUpdate == UpdateInit /\ [][UpdateNext]_vars

(***************************************************************************)
(* SpecClient: a client of WebTVProcessor that calls process_file itself   *)
(* on the files of the directory, in any order and any number of times,    *)
(* and commits or rolls back its session                                   *)
(*                                                                         *)
(* pc: "client"  between two calls                                         *)
(*     "failed"  an exception reached the client                           *)
(***************************************************************************)

ClientInit ==
    /\ NormIdle
    /\ MatchIdle
    /\ FetchIdle
    /\ opFiles = <<>>
    /\ tvFiles \in Listings(TVFilePool, MaxTVFiles)
    /\ paths = BothPaths
    /\ argOP = FALSE
    /\ argTV = FALSE
    /\ db = EmptyStore
    /\ txn = EmptyStore
    /\ pend = <<>>
    /\ person_cache = LoadPersonCache(<<>>, EmptyStore.persons)
    /\ pc = "client"
    /\ idx = 0
    /\ count = 0
    /\ result = NoTotals
    /\ runs = 1
    /\ hist = NoHistory

\* The text with its first 100 characters, or the characters after them,
\* replaced by others.
EditedText(text, part) ==
    IF part = "head" THEN [text EXCEPT !.head = "changed"]
    ELSE [text EXCEPT !.rest = "changed"]

\* The file with the text of the first intervention of its first topic edited.
EditedFile(file, part) ==
    [file EXCEPT !.contents[1].interventions[1].text = EditedText(@, part)]

\* The file has a first intervention with a text.
HasFirstText(file) ==
    /\ file.contents # <<>>
    /\ file.contents[1].interventions # <<>>
    /\ file.contents[1].interventions[1].text # NullText

\* How many SpeechSegments a session holds, flushed or not.
SpeechCount(t, pending) ==
    Len(t.speeches) + Len(SelectSeq(pending, LAMBDA o : o.kind = "speeches"))

\* What a call of process_file on tvFiles[i] leaves to the client: the session
\* as the call left it (st), and an exception if it raised.  part tells
\* whether the file was as listed ("none") or edited.
ClientTook(st, i, part) ==
    LET path == tvFiles[i].path
        effect == RepeatEffect(hist, path, TranscriptRows(txn, pend),
                               TranscriptRows(st.txn, st.pend))
        made == SpeechCount(st.txn, st.pend) - SpeechCount(txn, pend)
    IN  /\ txn' = st.txn
        /\ pend' = st.pend
        /\ person_cache' = st.cache
        /\ pc' = IF st.raised THEN "failed" ELSE "client"
        /\ idx' = i
        /\ hist' = [hist EXCEPT
                      !.calls = @ + 1,
                      !.succeeded = IF st.raised \/ part # "none" THEN @ ELSE @ \cup {path},
                      !.held = IF st.raised THEN @ ELSE @ \cup {path},
                      !.integrity = @ \/ st.integrity,
                      !.repeat = IF part = "none" THEN effect ELSE "none",
                      !.edit = IF part = "none" THEN @
                               ELSE [part |-> part, made |-> made]]

\* processor.process_file(path) for one of the files; an exception reaches
\* the client with the session as the call left it.
ClientProcessFile ==
    /\ pc = "client"
    /\ hist.calls < MaxClientCalls
    /\ \E i \in 1..Len(tvFiles) :
         ClientTook(TVProcessFile(SessionState(txn, pend, person_cache), tvFiles[i], runs),
                    i, "none")
    /\ UNCHANGED <<opFiles, tvFiles, paths, argOP, argTV, db, count, result, runs,
                   normVars, matchVars, fetchVars>>

\* processor.process_file(path) after the text of the first intervention of
\* the file was edited, the rows of the file as it was being held or stored.
\* One edit is followed per behaviour, so that the edited text is new.
ClientProcessEdited ==
    /\ pc = "client"
    /\ hist.calls < MaxClientCalls
    /\ hist.edit.part = "none"
    /\ \E i \in 1..Len(tvFiles), part \in {"head", "rest"} :
         /\ tvFiles[i].path \in (hist.held \cup hist.stored)
         /\ HasFirstText(tvFiles[i])
         /\ ClientTook(TVProcessFile(SessionState(txn, pend, person_cache),
                                     EditedFile(tvFiles[i], part), runs),
                       i, part)
    /\ UNCHANGED <<opFiles, tvFiles, paths, argOP, argTV, db, count, result, runs,
                   normVars, matchVars, fetchVars>>

\* db.commit() by the client.
ClientCommit ==
    /\ pc = "client"
    /\ pend # <<>> \/ txn # db
    /\ LET st == DbCommit(SessionState(txn, pend, person_cache))
       IN  /\ txn' = st.txn
           /\ pend' = st.pend
           /\ db' = IF st.raised THEN db ELSE st.txn
           /\ pc' = IF st.raised THEN "failed" ELSE "client"
           /\ hist' = [hist EXCEPT
                         !.held = IF st.raised THEN @ ELSE {},
                         !.committed = IF st.raised THEN @ ELSE @ \cup hist.held,
                         !.stored = IF st.raised THEN @ ELSE @ \cup hist.held,
                         !.integrity = @ \/ st.integrity,
                         !.repeat = "none"]
    /\ UNCHANGED <<opFiles, tvFiles, paths, argOP, argTV, person_cache, idx, count, result, runs,
                   normVars, matchVars, fetchVars>>

\* db.rollback() by the client, after an exception.
ClientRollback ==
    /\ pc = "failed"
    /\ txn' = db
    /\ pend' = <<>>
    /\ pc' = "client"
    /\ hist' = [hist EXCEPT !.held = {}, !.repeat = "none"]
    /\ UNCHANGED <<opFiles, tvFiles, paths, argOP, argTV, db, person_cache, idx, count, result,
                   runs, normVars, matchVars, fetchVars>>

\* The labels a client asks placeholders for: three spellings of one
\* normalized label, a label of two tokens, that label with an underscore
\* for the blank, and a label that is only a title.
ClientLabelPool ==
    { <<"D">>, <<"d">>, <<"O", "n", " ", "D">>, <<"A", " ", "B">>, <<"A", "_", "B">>,
      <<"O", "n">> }

\* name_matcher.get_or_create_unknown_speaker(label) called by the client.
ClientUnknownSpeaker ==
    /\ pc = "client"
    /\ hist.calls < MaxClientCalls
    /\ \E label \in ClientLabelPool :
         LET st == GetOrCreateUnknownSpeaker(SessionState(txn, pend, person_cache), label)
         IN  /\ txn' = st.txn
             /\ pend' = st.pend
             /\ person_cache' = st.cache
             /\ pc' = IF st.raised THEN "failed" ELSE "client"
             /\ hist' = [hist EXCEPT
                           !.calls = @ + 1,
                           !.answers = IF st.raised THEN @
                                       ELSE Append(@, [label |-> label, person |-> st.ret]),
                           !.integrity = @ \/ st.integrity,
                           !.repeat = "none"]
    /\ UNCHANGED <<opFiles, tvFiles, paths, argOP, argTV, db, idx, count, result, runs,
                   normVars, matchVars, fetchVars>>

ClientNext ==
    \/ ClientProcessFile
    \/ ClientProcessEdited
    \/ ClientUnknownSpeaker
    \/ ClientCommit
    \/ ClientRollback

SpecClient == ClientInit /\ [][ClientNext]_vars

(***************************************************************************)
(* SpecPlaceholder: the same client on a directory of at most one session  *)
(* file, for the claims about get_or_create_unknown_speaker                *)
(***************************************************************************)

PlaceholderInit ==
    /\ NormIdle
    /\ MatchIdle
    /\ FetchIdle
    /\ opFiles = <<>>
    /\ tvFiles \in {<<>>} \cup { <<f>> : f \in TVFilePool }
    /\ paths = BothPaths
    /\ argOP = FALSE
    /\ argTV = FALSE
    /\ db = EmptyStore
    /\ txn = EmptyStore
    /\ pend = <<>>
    /\ person_cache = LoadPersonCache(<<>>, EmptyStore.persons)
    /\ pc = "client"
    /\ idx = 0
    /\ count = 0
    /\ result = NoTotals
    /\ runs = 1
    /\ hist = NoHistory

SpecPlaceholder == PlaceholderInit /\ [][ClientNext]_vars

(***************************************************************************)
(* SpecTopic: the same client on one session file with two debates whose    *)
(* titles differ in letter case or in whitespace                            *)
(***************************************************************************)

\* The titles of the debates: a title, the title in capitals, and the title
\* with a blank after it.
TitlePool == {"t", "T", "t "}

\* The files: a sitting with two debates under different titles (the keys of
\* the JSON object), each with one intervention.
TopicFilePool ==
    { [path |-> "9__1.json", readable |-> TRUE, stem |-> <<"9", "_", "_", "1">>,
       contents |-> << Topic(ab[1], << Intervention(<<"D">>, Text("h1", "")) >>),
                       Topic(ab[2], << Intervention(<<"D">>, Text("h2", "")) >>) >>] :
      ab \in { t \in TitlePool \X TitlePool : t[1] # t[2] } }

TopicInit ==
    /\ NormIdle
    /\ MatchIdle
    /\ FetchIdle
    /\ opFiles = <<>>
    /\ tvFiles \in { <<f>> : f \in TopicFilePool }
    /\ paths = BothPaths
    /\ argOP = FALSE
    /\ argTV = FALSE
    /\ db = EmptyStore
    /\ txn = EmptyStore
    /\ pend = <<>>
    /\ person_cache = LoadPersonCache(<<>>, EmptyStore.persons)
    /\ pc = "client"
    /\ idx = 0
    /\ count = 0
    /\ result = NoTotals
    /\ runs = 1
    /\ hist = NoHistory

SpecTopic == TopicInit /\ [][ClientNext]_vars

(***************************************************************************)
(* SpecSpeaker: a client that resolves speaker labels on an empty store the *)
(* way process_file does, and commits                                      *)
(***************************************************************************)

\* speaker = match_speaker(speaker_name), and if there is none
\* speaker = get_or_create_unknown_speaker(speaker_name)
ResolveSpeaker(st, speaker_name) ==
    LET matched == MatchSpeaker(st.cache, speaker_name)
    IN  IF matched = NoPerson THEN GetOrCreateUnknownSpeaker(st, speaker_name)
        ELSE [st EXCEPT !.ret = matched]

\* The labels of the transcripts: a surname, the surname after a given name
\* and before it, the surname after a title, and another surname.
SpeakerLabelPool ==
    { <<"D">>, <<"B", " ", "D">>, <<"D", " ", "B">>, <<"O", "n", " ", "D">>, <<"R">> }

\* What resolving a label leaves to the client.
ClientResolved(st, label) ==
    /\ txn' = st.txn
    /\ pend' = st.pend
    /\ person_cache' = st.cache
    /\ pc' = IF st.raised THEN "failed" ELSE "client"
    /\ hist' = [hist EXCEPT
                  !.calls = @ + 1,
                  !.links = IF st.raised THEN @
                            ELSE Append(@, [label |-> label, person |-> st.ret]),
                  !.integrity = @ \/ st.integrity,
                  !.repeat = "none"]

\* The speaker of an intervention with the label is resolved.
ClientResolveSpeaker ==
    /\ pc = "client"
    /\ hist.calls < MaxClientCalls
    /\ \E label \in SpeakerLabelPool :
         ClientResolved(ResolveSpeaker(SessionState(txn, pend, person_cache), label), label)
    /\ UNCHANGED <<opFiles, tvFiles, paths, argOP, argTV, db, idx, count, result, runs,
                   normVars, matchVars, fetchVars>>

SpeakerInit ==
    /\ NormIdle
    /\ MatchIdle
    /\ FetchIdle
    /\ opFiles = <<>>
    /\ tvFiles = <<>>
    /\ paths = BothPaths
    /\ argOP = FALSE
    /\ argTV = FALSE
    /\ db = EmptyStore
    /\ txn = EmptyStore
    /\ pend = <<>>
    /\ person_cache = LoadPersonCache(<<>>, EmptyStore.persons)
    /\ pc = "client"
    /\ idx = 0
    /\ count = 0
    /\ result = NoTotals
    /\ runs = 1
    /\ hist = NoHistory

SpeakerNext ==
    \/ ClientResolveSpeaker
    \/ ClientCommit

SpecSpeaker == SpeakerInit /\ [][SpeakerNext]_vars

(***************************************************************************)
(* WebTVFetcher: incremental discovery                                     *)
(*                                                                         *)
(* The remote site is the set of session numbers for which the HEAD probe  *)
(* answers 200 and the download gives a session with debates; the file of  *)
(* session n is saved under the number n.                                  *)
(***************************************************************************)

\* The highest session number that has a local file when SpecFetch starts.
Watermark == 400

\* How many numbers above the watermark may exist remotely.
FetchWindow == 6

\* How many times fetch_incremental is called, at most.
MaxFetchCalls == 2

\* max_attempts: int = 100
DefaultMaxAttempts == 100

\* if consecutive_missing >= 5: break
MissingLimit == 5

SetMax(S) == CHOOSE n \in S : \A m \in S : m <= n

Min(a, b) == IF a <= b THEN a ELSE b

\* get_existing_sessions: the numbers of the files of this legislature.
GetExistingSessions(local) == local

\* A last-session lookup that answers 0 when there is no file.
LastSessionOrZero(local) ==
    IF GetExistingSessions(local) = {} THEN <<0>>
    ELSE <<SetMax(GetExistingSessions(local))>>

\* get_last_session_number: <<n>> for the highest number, <<>> for None.
GetLastSessionNumber(local) ==
    IF GetExistingSessions(local) = {} THEN <<>>
    ELSE <<SetMax(GetExistingSessions(local))>>

\* check_session_exists: the HEAD request answers 200.
CheckSessionExists(remote, n) == n \in remote

\* fetch_session returns data: the session exists and its download succeeds.
FetchSession(remote, failing, n) == n \in remote /\ n \notin failing

\* The locals when the probing loop starts.
LoopStart(last_session) ==
    [ start |-> last_session + 1, num |-> last_session + 1, end |-> last_session + 1,
      missing |-> 0, count |-> 0 ]

\* A loop body that counts every missing number and never starts again.
ProbeCountingAll(loop, exists) ==
    [ loop EXCEPT !.end = IF exists THEN loop.num ELSE @,
                  !.missing = IF exists THEN @ ELSE @ + 1,
                  !.num = @ + 1 ]

\* The body of the probing loop for session_num = loop.num.
ProbeBody(loop, exists) ==
    [ loop EXCEPT !.end = IF exists THEN loop.num ELSE @,
                  !.missing = IF exists THEN 0 ELSE @ + 1,
                  !.num = @ + 1 ]

\* A probing loop that is left by the break only.
ProbingUntilGap(loop, exists, max_attempts) ==
    ~exists /\ loop.missing >= MissingLimit

\* The probing loop is left after the body: by the break, or because
\* range(start_session, start_session + max_attempts) is exhausted.
ProbingOver(loop, exists, max_attempts) ==
    \/ ~exists /\ loop.missing >= MissingLimit
    \/ loop.num >= loop.start + max_attempts

\* max_sessions: Optional[int] = None.  None is written as -1.
NoMaxSessions == -1

\* The truth value of max_sessions in "if max_sessions": None and 0 are false.
IsTruthy(max_sessions) == max_sessions # NoMaxSessions /\ max_sessions # 0

\* if max_sessions: end_session = min(end_session, start_session + max_sessions - 1)
LimitEnd(loop, max_sessions) ==
    IF IsTruthy(max_sessions) THEN Min(loop.end, loop.start + max_sessions - 1)
    ELSE loop.end

\* The history of a call that has just begun: the number of the call, the
\* local files it began with and the last session number it read.
NewLog(calls, local, last) ==
    [ calls |-> calls, local |-> local, watermark |-> last, probes |-> <<>>,
      requests |-> <<>>,
      failed |-> {}, saved |-> {}, existing |-> {}, ret |-> <<>>, outcome |-> "" ]

\* The arguments of the calls: the defaults, a maximum of two new sessions,
\* a maximum of none, and three attempts.
FetchArgsPool ==
    { [max_sessions |-> NoMaxSessions, max_attempts |-> DefaultMaxAttempts],
      [max_sessions |-> 2, max_attempts |-> DefaultMaxAttempts],
      [max_sessions |-> 0, max_attempts |-> DefaultMaxAttempts],
      [max_sessions |-> NoMaxSessions, max_attempts |-> 3] }

FetchInit ==
    /\ NormIdle
    /\ MatchIdle
    /\ PipeIdle
    /\ fPc = "idle"
    /\ fLocal \in { {}, {Watermark}, {Watermark - 2, Watermark} }
    /\ fRemote \in SUBSET ((Watermark + 1)..(Watermark + FetchWindow))
    /\ fFail \in {{}} \cup {{n} : n \in fRemote}
    /\ fArgs \in FetchArgsPool
    /\ fLoop = LoopStart(0)
    /\ fLog = NewLog(0, fLocal, <<>>)

\* fetch_incremental is called: without a local file it returns 0, else the
\* probing loop starts at the number after the last one.
FetchCall ==
    /\ fPc \in {"idle", "returned"}
    /\ fLog.calls < MaxFetchCalls
    /\ LET last == GetLastSessionNumber(fLocal)
       IN  IF last = <<>>
           THEN /\ fLog' = [NewLog(fLog.calls + 1, fLocal, last) EXCEPT
                              !.ret = <<0>>, !.outcome = "no existing sessions"]
                /\ fPc' = "returned"
                /\ UNCHANGED fLoop
           ELSE /\ fLog' = NewLog(fLog.calls + 1, fLocal, last)
                /\ fLoop' = LoopStart(last[1])
                /\ fPc' = "probe"
    /\ UNCHANGED <<fLocal, fRemote, fFail, fArgs, normVars, matchVars, pipeVars>>

\* One iteration of the probing loop.
Probe ==
    /\ fPc = "probe"
    /\ LET exists == CheckSessionExists(fRemote, fLoop.num)
           loop == ProbeBody(fLoop, exists)
       IN  /\ fLoop' = loop
           /\ fLog' = [fLog EXCEPT !.probes = Append(@, fLoop.num)]
           /\ fPc' = IF ProbingOver(loop, exists, fArgs.max_attempts) THEN "range"
                     ELSE "probe"
    /\ UNCHANGED <<fLocal, fRemote, fFail, fArgs, normVars, matchVars, pipeVars>>

\* After the loop: "No new sessions found" and 0 if end_session is below
\* start_session, else fetch_session_range(start_session, end_session) starts
\* and reads the existing files.
ChooseRange ==
    /\ fPc = "range"
    /\ IF fLoop.end < fLoop.start
       THEN /\ fLog' = [fLog EXCEPT !.ret = <<0>>, !.outcome = "no new sessions"]
            /\ fPc' = "returned"
            /\ UNCHANGED fLoop
       ELSE /\ fLoop' = [fLoop EXCEPT !.end = LimitEnd(fLoop, fArgs.max_sessions),
                                      !.num = fLoop.start,
                                      !.count = 0]
            /\ fLog' = [fLog EXCEPT !.existing = GetExistingSessions(fLocal),
                                    !.outcome = "fetching"]
            /\ fPc' = "fetch"
    /\ UNCHANGED <<fLocal, fRemote, fFail, fArgs, normVars, matchVars, pipeVars>>

\* One iteration of the loop of fetch_session_range: an existing file is
\* skipped, else the session is requested and, if data came back, saved.
FetchOne ==
    /\ fPc = "fetch"
    /\ fLoop.num <= fLoop.end
    /\ LET n == fLoop.num
           failing == IF fLog.calls = 1 THEN fFail ELSE {}
           got == FetchSession(fRemote, failing, n)
       IN  IF n \in fLog.existing
           THEN /\ fLoop' = [fLoop EXCEPT !.num = @ + 1]
                /\ UNCHANGED <<fLocal, fLog>>
           ELSE /\ fLoop' = [fLoop EXCEPT !.num = @ + 1,
                                          !.count = IF got THEN @ + 1 ELSE @]
                /\ fLocal' = IF got THEN fLocal \cup {n} ELSE fLocal
                /\ fLog' = [fLog EXCEPT
                              !.requests = Append(@, n),
                              !.saved = IF got THEN @ \cup {n} ELSE @,
                              !.failed = IF n \in fRemote /\ ~got THEN @ \cup {n} ELSE @]
    /\ UNCHANGED <<fPc, fRemote, fFail, fArgs, normVars, matchVars, pipeVars>>

\* fetch_session_range returns count, which fetch_incremental returns.
FetchReturn ==
    /\ fPc = "fetch"
    /\ fLoop.num > fLoop.end
    /\ fLog' = [fLog EXCEPT !.ret = <<fLoop.count>>]
    /\ fPc' = "returned"
    /\ UNCHANGED <<fLocal, fRemote, fFail, fArgs, fLoop, normVars, matchVars, pipeVars>>

FetchNext ==
    \/ FetchCall
    \/ Probe
    \/ ChooseRange
    \/ FetchOne
    \/ FetchReturn

SpecFetch == FetchInit /\ [][FetchNext]_vars

(***************************************************************************)
(* Claims about the pipeline (Spec, SpecClient)                            *)
(***************************************************************************)

\* C1: a second process_file on a transcript file whose rows the session or
\* the store already holds adds no Session, Topic or SpeechSegment row and
\* changes none.  Violated: the SpeechSegments a call adds are not flushed, the
\* query of the second call does not see them and they are added once more.
C1_AsStated == hist.repeat # "changed"

\* The Person rows a session holds, flushed or not.
PersonsHeld ==
    txn.persons \o
    [i \in 1..Len(SelectSeq(pend, LAMBDA o : o.kind = "persons")) |->
        SelectSeq(pend, LAMBDA o : o.kind = "persons")[i].row]

\* C2: there is never a second Person for an external id, and a record whose
\* id was ingested earlier in the batch does not make the batch fail.
\* Violated: the earlier Person is not flushed, so the query misses it.
C2_AsStated ==
    /\ \A i, j \in 1..Len(PersonsHeld) :
          i # j => PersonsHeld[i].person_id # PersonsHeld[j].person_id
    /\ ~(pc = "raised" /\ "op" \notin hist.returned)

\* f"session_{legislature}_{session_number}" of a file whose name has the form.
SessionIdOf(file) == SessionKey(SplitStem(file.stem)[1], SplitStem(file.stem)[2])

\* C3: when process_all has returned, the Person of every biographical file
\* that was processed successfully and the Session of every transcript file
\* that was processed successfully are in the store.  Violated: the rollback
\* after a failing file discards the uncommitted writes of the files before it.
C3_AsStated ==
    /\ "op" \in hist.returned =>
          \A i \in 1..Len(opFiles) :
             opFiles[i].path \in hist.succeeded =>
                HasRow(db.persons, "persons", PersonKey(opFiles[i].data))
    /\ "tv" \in hist.returned =>
          \A i \in 1..Len(tvFiles) :
             tvFiles[i].path \in hist.succeeded =>
                HasRow(db.sessions, "sessions", SessionIdOf(tvFiles[i]))

\* The files of a directory whose writes this run committed.
CommittedOf(files) == {i \in 1..Len(files) : files[i].path \in hist.committed}

\* C4: the counts run() returns are the numbers of files whose writes the run
\* committed.  Violated: a file is counted when process_file returns and stays
\* counted when a later rollback discards its writes.
C4_AsStated ==
    pc = "done" =>
       /\ argOP => result.persons = Cardinality(CommittedOf(opFiles))
       /\ argTV => result.sessions = Cardinality(CommittedOf(tvFiles))

\* C5: no failure of a file leaves process_all: each process_all that starts
\* returns a count.  Violated: the final commit is outside the try, and the
\* rejected INSERT of a file's Person is raised there.
C5_AsStated == pc # "raised"

\* The label "family given" of a Person.
FamilyGivenLabel(p) == p.family_name \o <<" ">> \o p.given_name

\* C6: in a run with both stages, during the transcript stage match_speaker
\* returns every Person the biographical stage created with a family name and
\* a given name for its label "family given".  Violated: a Person whose
\* insertion was rolled back is not in the index, and of two Persons with the
\* same names only the one loaded last is returned.
C6_AsStated ==
    (pc = "tv" /\ argOP) =>
       \A p \in hist.created :
          (p.family_name # Empty /\ p.given_name # Empty) =>
             MatchSpeaker(person_cache, FamilyGivenLabel(p)) = p.person_id

\* Every row of the table before is a row of the table after, unchanged.
RowsKept(before, after) ==
    \A i \in 1..Len(before) : \E j \in 1..Len(after) : after[j] = before[i]

\* No key occurs in two rows of the table.
KeysUnique(table, kind) ==
    \A i, j \in 1..Len(table) : i # j => RowId(kind, table[i]) # RowId(kind, table[j])

Kinds == {"persons", "sessions", "topics", "speeches"}

\* C7: after a crash and a new run on the same input, the rows committed
\* before the crash are in the store unchanged, the new run does not end with
\* a duplicate-identifier failure, and no key occurs twice in a table.
\* Violated: two records with one id make the final commit of the new run fail.
C7_AsStated ==
    hist.crashed =>
       /\ \A k \in Kinds : RowsKept(hist.dbAtCrash[k], db[k])
       /\ ~(pc = "raised" /\ hist.integrity)
       /\ \A k \in Kinds : KeysUnique(db[k], k)

\* The Session rows a session holds (a Session is flushed when it is added).
SessionsHeld == txn.sessions

\* C8: no two Sessions have the same (legislature, session_number), and two
\* Sessions with different pairs have different identifiers.  Violated: the
\* identifier is built from the texts of the file name, the pair from their
\* integer values ("1" and "01").
C8_AsStated ==
    \A i, j \in 1..Len(SessionsHeld) :
       i # j =>
          /\ <<SessionsHeld[i].legislature, SessionsHeld[i].session_number>>
                # <<SessionsHeld[j].legislature, SessionsHeld[j].session_number>>
          /\ SessionsHeld[i].session_id # SessionsHeld[j].session_id

\* The biographical stage has returned after updating the one stored Person
\* from the one record of the directory.
PersonUpdated ==
    /\ "op" \in hist.returned
    /\ Len(hist.dbAtStart.persons) = 1
    /\ Len(opFiles) = 1
    /\ hist.dbAtStart.persons[1].person_id = PersonKey(opFiles[1].data)

\* C14: the update of an existing Person from a record overwrites the party
\* when the record has one, keeps the stored party when the record has none,
\* and leaves a family name, given name or full name that is not empty as
\* it was.
C14_UpdateKeepsNames ==
    PersonUpdated =>
       LET old == hist.dbAtStart.persons[1]
           new == db.persons[1]
           data == opFiles[1].data
       IN  /\ Len(db.persons) = 1
           /\ data.party # Empty => new.party = data.party
           /\ data.party = Empty => new.party = old.party
           /\ old.family_name # Empty => new.family_name = old.family_name
           /\ old.given_name # Empty => new.given_name = old.given_name
           /\ old.full_name # Empty => new.full_name = old.full_name

\* C14 witness: a record with another party and no given name has updated a
\* Person that had a party and a given name.
C14_Witness ==
    /\ PersonUpdated
    /\ hist.dbAtStart.persons[1].party = <<"X">>
    /\ opFiles[1].data.party = <<"Y">>
    /\ db.persons[1].party = <<"Y">>
    /\ hist.dbAtStart.persons[1].given_name = <<"A">>
    /\ opFiles[1].data.given_name = Empty
    /\ db.persons[1].given_name = <<"A">>

\* The placeholder Persons among the rows of a Person table.
Placeholders(table) == SelectSeq(table, LAMBDA p : p.person_id[1] = "unknown_")

\* No two placeholder rows of the table stand for the same normalized label.
OnePlaceholderPerLabel(table) ==
    \A i, j \in 1..Len(Placeholders(table)) :
       i # j => NormalizeName(Placeholders(table)[i].full_name)
                   # NormalizeName(Placeholders(table)[j].full_name)

C18_AsStated == hist.edit.part # "none" => hist.edit.made >= 1

\* C19: a biographical record without external id fails and creates or
\* updates no Person: no Person a session holds was made from such a record.
\* Violated: the key of a record without id is "op_unknown", and a Person is
\* created under it.
C19_AsStated ==
    \A i \in 1..Len(PersonsHeld) : PersonsHeld[i].raw_data.id # AbsentId

\* C20: when the biographical stage's process_all raises in a run with both
\* stages, the transcript stage is still run: a run that the exception has
\* ended had its transcript stage.  Violated: run() does not catch the
\* exception, which ends the run before the transcript stage.
C20_AsStated ==
    (pc = "raised" /\ argOP /\ argTV /\ "op" \notin hist.returned) =>
       "tv" \in hist.returned

\* C21: a run in which a requested stage has no input location does not end
\* with a normal result: run() never returns when the data_path of a stage it
\* was asked for is unset or missing.  Violated: process_all logs a warning and
\* returns 0, and run() returns the totals it returns for an empty directory.
C21_AsStated ==
    ~(pc = "done" /\ ((argOP /\ ~paths.op) \/ (argTV /\ ~paths.tv)))

\* C22: every SpeechSegment of the committed store has the speaker_id of a
\* Person of the committed store.  Violated: a placeholder Person whose
\* creation was rolled back with its file stays in the name index, and a later
\* file of the batch is given it as the speaker of a committed SpeechSegment.
C22_AsStated ==
    \A i \in 1..Len(db.speeches) :
       HasRow(db.persons, "persons", db.speeches[i].speaker_id)

\* C23: a label is linked to a placeholder only if the placeholder's
\* identifier is made from the label's own normalized form.  Violated: the
\* placeholders are in the name index, and match_speaker returns the
\* placeholder of "D" for the later label "B D" by its surname.
C23_AsStated ==
    \A i \in 1..Len(hist.links) :
       hist.links[i].person[1] = "unknown_" =>
          hist.links[i].person = UnknownKey(hist.links[i].label)

\* A title in lower case and without blanks around it, for the titles of
\* TitlePool.
FoldTitle(title) ==
    CASE title = "T"  -> "t"
      [] title = "t " -> "t"
      [] OTHER        -> title

\* C28: two titles of one session that differ only in letter case or in
\* whitespace get the same topic identifier, so a session holds one Topic for
\* them.  Violated: the identifier is made of the md5 of the title as it is
\* written.
C28_AsStated ==
    \A i, j \in 1..Len(txn.topics) :
       (/\ txn.topics[i].session_id = txn.topics[j].session_id
        /\ FoldTitle(txn.topics[i].title) = FoldTitle(txn.topics[j].title)) => i = j

(***************************************************************************)
(* Claims about fetch_incremental (SpecFetch)                              *)
(***************************************************************************)

\* The numbers g, g+1, ... g+MissingLimit-1 are all missing remotely.
AllMissingFrom(g) == \A k \in 0..(MissingLimit - 1) : (g + k) \notin fRemote

\* The first number above L at which a run of MissingLimit missing numbers starts.
FirstGapAfter(L) ==
    CHOOSE g \in (L + 1)..(SetMax(fRemote \cup {L}) + 1) :
       /\ AllMissingFrom(g)
       /\ \A h \in (L + 1)..(g - 1) : ~AllMissingFrom(h)

\* A call with the default arguments has returned, it began with a watermark,
\* and no download of an existing session failed in it.
DefaultCallReturned ==
    /\ fPc = "returned"
    /\ fLog.watermark # <<>>
    /\ fArgs.max_sessions = NoMaxSessions
    /\ fArgs.max_attempts = DefaultMaxAttempts
    /\ fLog.failed = {}

C16_AsStated ==
    ( /\ fPc = "returned"
      /\ fLog.watermark # <<>>
      /\ Len(fLog.probes) >= 5
      /\ \A i \in 1..5 : fLog.probes[i] \notin fRemote )
    => ( /\ fLog.requests = <<>>
         /\ fLog.ret = <<0>>
         /\ fLog.outcome = "no new sessions" )

\* C17: when no session file exists locally, fetch_incremental issues no
\* probe and no request and returns 0.
C17_NoWatermarkNoProbe ==
    (fLog.calls >= 1 /\ fLog.local = {}) =>
       /\ fPc = "returned"
       /\ fLog.probes = <<>>
       /\ fLog.requests = <<>>
       /\ fLog.ret = <<0>>

\* C17 witness: a call without local files has returned 0 although sessions
\* exist remotely.
C17_Witness ==
    /\ fPc = "returned"
    /\ fLocal = {}
    /\ fRemote # {}
    /\ fLog.calls >= 1
    /\ fLog.local = {}
    /\ fLog.probes = <<>>
    /\ fLog.ret = <<0>>

\* The session numbers the call has requested.
Requested == { fLog.requests[i] : i \in 1..Len(fLog.requests) }

\* C25: a session that exists remotely, has no local file and is at or below
\* the watermark (its fetch failed in the earlier call) is requested again by
\* the later call.  Violated: every call starts at the number after the
\* highest local file and requests nothing below it.
C25_AsStated ==
    (fPc = "returned" /\ fLog.calls >= 2 /\ fLog.watermark # <<>>) =>
       \A n \in fRemote :
          (n <= fLog.watermark[1] /\ n \notin fLog.local) => n \in Requested

\* The probes i-MissingLimit+1 .. i of the call all reported missing.
MissingRunEndsAt(i) ==
    \A k \in 0..(MissingLimit - 1) : fLog.probes[i - k] \notin fRemote

C30_AsStated ==
    (fLog.calls >= 1 /\ fLog.watermark # <<>> /\ fArgs.max_sessions # NoMaxSessions) =>
       /\ Cardinality(fLog.saved) <= fArgs.max_sessions
       /\ \A n \in Requested : n <= fLog.watermark[1] + fArgs.max_sessions

(***************************************************************************)
(* Claims about match_speaker (SpecMatch)                                  *)
(***************************************************************************)

\* The label "given family" of a Person.
GivenFamilyLabel(p) == p.given_name \o <<" ">> \o p.family_name

\* The index was built from exactly two Persons that share a family name and
\* have different given names, and match_speaker has answered.
TwoWithSharedFamily ==
    /\ mPc = "matched"
    /\ Len(mPersons) = 2
    /\ mPersons[1].family_name = mPersons[2].family_name
    /\ mPersons[1].family_name # Empty
    /\ mPersons[1].given_name # Empty
    /\ mPersons[2].given_name # Empty
    /\ mPersons[1].given_name # mPersons[2].given_name

\* What C10 promises for the two labels.
SharedFamilyAnswers ==
    /\ \A i \in 1..2 :
          mLabel = GivenFamilyLabel(mPersons[i]) => mRes.person = mPersons[i].person_id
    /\ mLabel = mPersons[1].family_name => mRes.person = NoPerson

IsOneToken(name) == Len(StrSplit(NormalizeName(name))) = 1

\* The family name and both given names normalize to one token each, and the
\* two given-name tokens differ.
SingleTokenNames ==
    /\ IsOneToken(mPersons[1].family_name)
    /\ IsOneToken(mPersons[1].given_name)
    /\ IsOneToken(mPersons[2].given_name)
    /\ NormalizeName(mPersons[1].given_name) # NormalizeName(mPersons[2].given_name)

\* C10 as stated: for an index built from two Persons that share a family name
\* and have different given names, match_speaker on "given family" of either
\* returns that Person and match_speaker on the bare family name returns None.
C10_AsStated == TwoWithSharedFamily => SharedFamilyAnswers

\* C10 amended: the same, for two Persons whose family name and given names
\* each normalize to a single token, the two given-name tokens being different.
C10_SharedFamilyResolved ==
    (TwoWithSharedFamily /\ SingleTokenNames) => SharedFamilyAnswers

\* C10 witness: the first-loaded of two such Persons was asked for by its
\* "given family" label and returned.
C10_Witness ==
    /\ TwoWithSharedFamily
    /\ SingleTokenNames
    /\ mLabel = GivenFamilyLabel(mPersons[1])
    /\ mRes.person = mPersons[1].person_id

\* The Persons the index holds under a key whose last token is the given one.
IndexedWithLastToken(cache, token) ==
    { cache[i].person : i \in { j \in 1..Len(cache) :
                                   /\ StrSplit(cache[j].key) # <<>>
                                   /\ Last(StrSplit(cache[j].key)) = token } }

\* match_speaker was called with a label that has a last token, and two or
\* more distinct Persons are indexed under keys ending with that token.
SurnameShared ==
    /\ mPc = "matched"
    /\ mLabel # Empty
    /\ mLabel # UnknownLabel
    /\ StrSplit(NormalizeName(mLabel)) # <<>>
    /\ Cardinality(IndexedWithLastToken(mCache,
                                        Last(StrSplit(NormalizeName(mLabel))))) >= 2

\* C11: when two or more distinct Persons of the index have the label's last
\* token as the last token of a key, match_speaker returns no Person from the
\* surname-only stage: unless an earlier stage matched, the result is None.
C11_NoSurnameGuess ==
    SurnameShared => (mRes.stage >= 5 => mRes.person = NoPerson)

\* C11 witness: the surname-only stage was reached with two such Persons and
\* the answer was None.
C11_Witness ==
    /\ SurnameShared
    /\ mRes.stage = 5
    /\ mRes.person = NoPerson

\* The index was built from one Person whose stored name has three tokens
\* 'F G1 G2', and match_speaker has answered the label 'G1 G2 F'.
RotatedLabelAsked ==
    /\ mPc = "matched"
    /\ Len(mPersons) = 1
    /\ Len(StrSplit(mPersons[1].full_name)) = 3
    /\ mLabel = StrJoin(<< StrSplit(mPersons[1].full_name)[2],
                           StrSplit(mPersons[1].full_name)[3],
                           StrSplit(mPersons[1].full_name)[1] >>)

\* C12: for an index holding a single Person whose stored name is 'F G1 G2',
\* match_speaker on the label 'G1 G2 F' returns that Person.
C12_RotatedNameMatches ==
    RotatedLabelAsked => mRes.person = mPersons[1].person_id

\* C12 witness: such a Person, indexed under its full name only, was found by
\* the rotated-order stage.
C12_Witness ==
    /\ RotatedLabelAsked
    /\ mPersons[1].given_name = Empty
    /\ mRes.stage = 3
    /\ mRes.person = mPersons[1].person_id

\* The tokens of the normalized form of a name.
TokensOf(name) ==
    { StrSplit(NormalizeName(name))[i] : i \in 1..Len(StrSplit(NormalizeName(name))) }

\* The Persons of the index that have the identifier.
AnsweredPersons == { i \in 1..Len(mPersons) : mPersons[i].person_id = mRes.person }

\* C24: when match_speaker returns a Person for a label, the label shares a
\* token with the Person's normalized family name.  Violated: the index holds
\* each Person under "family given", a key that ends with the given name, and
\* the surname-only stage compares the label's last token with the last
\* token of the key.
C24_AsStated ==
    (mPc = "matched" /\ mRes.person # NoPerson) =>
       \A i \in AnsweredPersons :
          TokensOf(mLabel) \cap TokensOf(mPersons[i].family_name) # {}

\* The distinct Persons that match the first and last token of the label at
\* the surname + first-given stage.
SurnameGivenPersons ==
    LET cands == SurnameGivenCandidates(mCache, StrSplit(NormalizeName(mLabel)))
    IN  { cands[i] : i \in 1..Len(cands) }

\* C26: at the surname + first-given stage, a single matching Person is
\* returned without the "Multiple matches" warning, which is logged only when
\* two or more distinct Persons match.  Violated: a Person is in the index
\* under "family given" and under "given family", both keys pass the test, and
\* the one Person is counted as two candidates.
C26_AsStated ==
    (mPc = "matched" /\ mRes.stage = 4) =>
       /\ Cardinality(SurnameGivenPersons) = 1 =>
             (mRes.person \in SurnameGivenPersons /\ ~mRes.warned)
       /\ mRes.warned => Cardinality(SurnameGivenPersons) >= 2

\* A token of the input, upper-cased and without punctuation.
CleanToken(t) == StripPunct(StrUpper(t))

\* The listed titles.
TitleSet == { TITLES[k] : k \in 1..Len(TITLES) }

\* C27: every token of the input that is not a title is a token of the
\* output, upper-cased and without punctuation.  Violated: the titles are
\* removed with str.replace wherever their letters occur, so "RON" loses its
\* "ON".
C27_AsStated ==
    nPc # "in" =>
       \A i \in 1..Len(StrSplit(nIn)) :
          LET t == CleanToken(StrSplit(nIn)[i])
          IN  (t # <<>> /\ t \notin TitleSet) =>
                 \E k \in 1..Len(StrSplit(nOut)) : StrSplit(nOut)[k] = t

\* C9: name normalization is idempotent: normalizing the result of
\* _normalize_name once more returns it unchanged, for every input string.
C9_NormalizeIdempotent == nPc = "twice" => nOut2 = nOut

=============================================================================
